---- MODULE Spec2Model ----
(***************************************************************************)
(* Model of the retry combinator `repeatedly_try` (src/src/try_again.rs)   *)
(* and of the `Retryable` / `RetryableResult` contract                     *)
(* (src/src/retryable.rs).                                                 *)
(*                                                                         *)
(* One activation of `repeatedly_try` is a record `call[c]`: the position  *)
(* of the async function (pc), the options it was given, its local vector  *)
(* `my_retriable_failures`, the logging context it borrows, and what it    *)
(* returned.  What the environment did to the activation (the outcomes of  *)
(* the operation, the calls made on the Retryable trait) is recorded in    *)
(* the fields trace, wait_time_calls and to_fatal_calls.                   *)
(***************************************************************************)
EXTENDS Integers, Sequences, FiniteSets

VARIABLES call, clock

vars == <<call, clock>>

(***************************************************************************)
(* Bounds of the model.                                                    *)
(***************************************************************************)
\* operation outcomes delivered to one activation
MaxAttempts == 3
\* clock ticks the environment lets pass
MaxTicks == 3
\* milliseconds in one tick of the modelled clock
TickMs == 1000

\* operation outcomes delivered to each of two concurrent activations
ConcAttempts == 2

\* operation outcomes delivered to one activation under the reference policy
RefMaxAttempts == 8

\* the activations the caller may start
Calls == {1, 2}
\* SuccessType values
Values == {1, 2}
\* FatalErr values: http StatusCode
Codes == {200, 503}
\* std::time::Duration values a policy may ask for
Durations == {0, TickMs}

(***************************************************************************)
(* Option<T>: None is the empty sequence, Some(x) the one-element one.     *)
(***************************************************************************)
None == <<>>
Some(x) == <<x>>
IsSome(o) == Len(o) = 1
Unwrap(o) == o[1]

(***************************************************************************)
(* RecoverableErr: RetryingStatusCode, the newtype around StatusCode.      *)
(***************************************************************************)
RetryingStatusCode(c) == [retrying |-> c]
RecoverableErrs == {RetryingStatusCode(c) : c \in Codes}

\* Retryable::to_fatal for RetryingStatusCode: unwraps the newtype.
to_fatal(r) == r.retrying

(***************************************************************************)
(* Result<SuccessType, FatalErr>; NoResult while the future is pending.    *)
(***************************************************************************)
NoResult == <<"Pending", 0>>
Ok(z) == <<"Ok", z>>
Err(f) == <<"Err", f>>

(***************************************************************************)
(* RetryableResult<T, R, F>, as the entry the trace keeps of one attempt:  *)
(* the variant, its payload, the clock when the outcome was classified     *)
(* and, for Retryable, what wait_time answered.                            *)
(***************************************************************************)
GoodResultOutcome(z, now) ==
    [kind |-> "GoodResult", good |-> Some(z), rec |-> None, fatal |-> None,
     time |-> now, wait |-> None]
RetryableOutcome(r, now, w) ==
    [kind |-> "Retryable", good |-> None, rec |-> Some(r), fatal |-> None,
     time |-> now, wait |-> w]
FatalOutcome(f, now) ==
    [kind |-> "Fatal", good |-> None, rec |-> None, fatal |-> Some(f),
     time |-> now, wait |-> None]

(***************************************************************************)
(* The loggers: each invocation appends one entry to the logging context.  *)
(***************************************************************************)
RecoverableLogEntry(a, b) == [logger |-> "recoverable", rec |-> Some(a), fatal |-> None, time |-> b]
FatalLogEntry(f, t) == [logger |-> "fatal", rec |-> None, fatal |-> Some(f), time |-> t]

\* my_retriable_failures.iter().for_each(|(a, b)| recoverable_logger(a, *b, ctx))
FlushHistory(ctx, recoverable_logger, failures) ==
    IF recoverable_logger
    THEN ctx \o [i \in 1..Len(failures) |->
                    RecoverableLogEntry(failures[i][1], failures[i][2])]
    ELSE ctx

\* if let Some(fatal_logger) = fatal_logger { fatal_logger(&f, this_time, ctx) }
LogFatal(ctx, fatal_logger, f, this_time) ==
    IF fatal_logger THEN Append(ctx, FatalLogEntry(f, this_time)) ELSE ctx

(***************************************************************************)
(* The activation before the caller invokes repeatedly_try.                *)
(***************************************************************************)
IdleCall ==
    [pc |-> "Idle",
     fatal_logger |-> FALSE,
     recoverable_logger |-> FALSE,
     my_retriable_failures |-> <<>>,
     ctx |-> <<>>,
     result |-> NoResult,
     wake |-> 0,
     sleeps |-> 0,
     trace |-> <<>>,
     wait_time_calls |-> <<>>,
     to_fatal_calls |-> <<>>]

\* repeatedly_try is called: the empty vector, then the first attempt.
OnInvoke(s, fl, rl) ==
    [s EXCEPT !.pc = "Attempting",
              !.fatal_logger = fl,
              !.recoverable_logger = rl,
              !.my_retriable_failures = <<>>]

\* variant: the success arm reports the recorded failures before returning
OnGoodResultFlushes(s, z, now) ==
    [s EXCEPT !.pc = "Succeeded",
              !.ctx = FlushHistory(@, s.recoverable_logger,
                                   s.my_retriable_failures),
              !.result = Ok(z),
              !.trace = Append(@, GoodResultOutcome(z, now))]

\* RetryableResult::GoodResult(z) => return Ok(z)
OnGoodResult(s, z, now) ==
    [s EXCEPT !.pc = "Succeeded",
              !.result = Ok(z),
              !.trace = Append(@, GoodResultOutcome(z, now))]

\* variant: the loop abandons by itself once two failures are recorded
OnRetryableWaitCapped(s, r, this_time, how_long_to_wait) ==
    LET f == to_fatal(r) IN
    IF Len(s.my_retriable_failures) < 2
    THEN [s EXCEPT !.pc = "Waiting",
                   !.wait_time_calls =
                       Append(@, [self |-> r, my_time |-> this_time,
                                  previous |-> s.my_retriable_failures]),
                   !.my_retriable_failures = Append(@, <<r, this_time>>),
                   !.wake = this_time + how_long_to_wait,
                   !.sleeps = @ + 1,
                   !.trace = Append(@, RetryableOutcome(r, this_time,
                                                        Some(how_long_to_wait)))]
    ELSE [s EXCEPT !.pc = "GivenUp",
                   !.wait_time_calls =
                       Append(@, [self |-> r, my_time |-> this_time,
                                  previous |-> s.my_retriable_failures]),
                   !.ctx = LogFatal(FlushHistory(@, s.recoverable_logger,
                                                 s.my_retriable_failures),
                                    s.fatal_logger, f, this_time),
                   !.to_fatal_calls = Append(@, r),
                   !.result = Err(f),
                   !.trace = Append(@, RetryableOutcome(r, this_time,
                                                        Some(how_long_to_wait)))]

\* variant: the failure is converted with to_fatal before wait_time is asked
OnRetryableWaitConvertsEagerly(s, r, this_time, how_long_to_wait) ==
    [s EXCEPT !.pc = "Waiting",
              !.to_fatal_calls = Append(@, r),
              !.wait_time_calls =
                  Append(@, [self |-> r, my_time |-> this_time,
                             previous |-> s.my_retriable_failures]),
              !.my_retriable_failures = Append(@, <<r, this_time>>),
              !.wake = this_time + how_long_to_wait,
              !.sleeps = @ + 1,
              !.trace = Append(@, RetryableOutcome(r, this_time, Some(how_long_to_wait)))]

\* variant: the failure is pushed before wait_time is asked
OnRetryableWaitPushesFirst(s, r, this_time, how_long_to_wait) ==
    LET failures == Append(s.my_retriable_failures, <<r, this_time>>) IN
    [s EXCEPT !.pc = "Waiting",
              !.wait_time_calls =
                  Append(@, [self |-> r, my_time |-> this_time,
                             previous |-> failures]),
              !.my_retriable_failures = failures,
              !.wake = this_time + how_long_to_wait,
              !.sleeps = @ + 1,
              !.trace = Append(@, RetryableOutcome(r, this_time, Some(how_long_to_wait)))]

\* variant: each failure is reported to the recoverable-logger as it occurs
OnRetryableWaitLogsAtOnce(s, r, this_time, how_long_to_wait) ==
    [s EXCEPT !.pc = "Waiting",
              !.wait_time_calls =
                  Append(@, [self |-> r, my_time |-> this_time,
                             previous |-> s.my_retriable_failures]),
              !.ctx = FlushHistory(@, s.recoverable_logger, <<<<r, this_time>>>>),
              !.my_retriable_failures = Append(@, <<r, this_time>>),
              !.wake = this_time + how_long_to_wait,
              !.sleeps = @ + 1,
              !.trace = Append(@, RetryableOutcome(r, this_time, Some(how_long_to_wait)))]

\* variant: the failure is recorded with the time its sleep is due to end
OnRetryableWaitStampsWake(s, r, this_time, how_long_to_wait) ==
    [s EXCEPT !.pc = "Waiting",
              !.wait_time_calls =
                  Append(@, [self |-> r, my_time |-> this_time,
                             previous |-> s.my_retriable_failures]),
              !.my_retriable_failures =
                  Append(@, <<r, this_time + how_long_to_wait>>),
              !.wake = this_time + how_long_to_wait,
              !.sleeps = @ + 1,
              !.trace = Append(@, RetryableOutcome(r, this_time, Some(how_long_to_wait)))]

\* variant: the failure is inserted at the front of the vector
OnRetryableWaitPrepends(s, r, this_time, how_long_to_wait) ==
    [s EXCEPT !.pc = "Waiting",
              !.wait_time_calls =
                  Append(@, [self |-> r, my_time |-> this_time,
                             previous |-> s.my_retriable_failures]),
              !.my_retriable_failures = <<<<r, this_time>>>> \o @,
              !.wake = this_time + how_long_to_wait,
              !.sleeps = @ + 1,
              !.trace = Append(@, RetryableOutcome(r, this_time, Some(how_long_to_wait)))]

\* RetryableResult::Retryable(r), wait_time answered Some(how_long_to_wait)
OnRetryableWait(s, r, this_time, how_long_to_wait) ==
    [s EXCEPT !.pc = "Waiting",
              !.wait_time_calls =
                  Append(@, [self |-> r, my_time |-> this_time,
                             previous |-> s.my_retriable_failures]),
              !.my_retriable_failures = Append(@, <<r, this_time>>),
              !.wake = this_time + how_long_to_wait,
              !.sleeps = @ + 1,
              !.trace = Append(@, RetryableOutcome(r, this_time, Some(how_long_to_wait)))]

\* variant: the failure that ends the run is recorded before the flush
OnRetryableGiveUpRecordsCurrent(s, r, this_time) ==
    LET f == to_fatal(r)
        failures == Append(s.my_retriable_failures, <<r, this_time>>) IN
    [s EXCEPT !.pc = "GivenUp",
              !.wait_time_calls =
                  Append(@, [self |-> r, my_time |-> this_time,
                             previous |-> s.my_retriable_failures]),
              !.my_retriable_failures = failures,
              !.ctx = LogFatal(FlushHistory(@, s.recoverable_logger, failures),
                               s.fatal_logger, f, this_time),
              !.to_fatal_calls = Append(@, r),
              !.result = Err(f),
              !.trace = Append(@, RetryableOutcome(r, this_time, None))]

\* variant: the give-up arm reports only the fatal error
OnRetryableGiveUpSkipsFlush(s, r, this_time) ==
    LET f == to_fatal(r) IN
    [s EXCEPT !.pc = "GivenUp",
              !.wait_time_calls =
                  Append(@, [self |-> r, my_time |-> this_time,
                             previous |-> s.my_retriable_failures]),
              !.ctx = LogFatal(@, s.fatal_logger, f, this_time),
              !.to_fatal_calls = Append(@, r),
              !.result = Err(f),
              !.trace = Append(@, RetryableOutcome(r, this_time, None))]

\* variant: the first recorded failure is the one converted and returned
OnRetryableGiveUpReturnsFirst(s, r, this_time) ==
    LET first == IF s.my_retriable_failures = <<>> THEN r
                 ELSE s.my_retriable_failures[1][1]
        f == to_fatal(first) IN
    [s EXCEPT !.pc = "GivenUp",
              !.wait_time_calls =
                  Append(@, [self |-> r, my_time |-> this_time,
                             previous |-> s.my_retriable_failures]),
              !.ctx = LogFatal(FlushHistory(@, s.recoverable_logger,
                                            s.my_retriable_failures),
                               s.fatal_logger, f, this_time),
              !.to_fatal_calls = Append(@, first),
              !.result = Err(f),
              !.trace = Append(@, RetryableOutcome(r, this_time, None))]

\* RetryableResult::Retryable(r), wait_time answered None
OnRetryableGiveUp(s, r, this_time) ==
    LET f == to_fatal(r) IN
    [s EXCEPT !.pc = "GivenUp",
              !.wait_time_calls =
                  Append(@, [self |-> r, my_time |-> this_time,
                             previous |-> s.my_retriable_failures]),
              !.ctx = LogFatal(FlushHistory(@, s.recoverable_logger,
                                            s.my_retriable_failures),
                               s.fatal_logger, f, this_time),
              !.to_fatal_calls = Append(@, r),
              !.result = Err(f),
              !.trace = Append(@, RetryableOutcome(r, this_time, None))]

\* variant: the fatal error is reported before the recorded failures
OnFatalLogsFatalFirst(s, f, this_time) ==
    [s EXCEPT !.pc = "FatalHit",
              !.ctx = FlushHistory(LogFatal(@, s.fatal_logger, f, this_time),
                                   s.recoverable_logger,
                                   s.my_retriable_failures),
              !.result = Err(f),
              !.trace = Append(@, FatalOutcome(f, this_time))]

\* variant: the Fatal arm reports only the fatal error
OnFatalNoFlush(s, f, this_time) ==
    [s EXCEPT !.pc = "FatalHit",
              !.ctx = LogFatal(@, s.fatal_logger, f, this_time),
              !.result = Err(f),
              !.trace = Append(@, FatalOutcome(f, this_time))]

\* variant: the Fatal arm returns inside the fatal-logger branch only
OnFatalReturnsOnlyWhenLogged(s, f, this_time) ==
    IF s.fatal_logger
    THEN [s EXCEPT !.pc = "FatalHit",
                   !.ctx = LogFatal(FlushHistory(@, s.recoverable_logger,
                                                 s.my_retriable_failures),
                                    s.fatal_logger, f, this_time),
                   !.result = Err(f),
                   !.trace = Append(@, FatalOutcome(f, this_time))]
    ELSE [s EXCEPT !.ctx = FlushHistory(@, s.recoverable_logger,
                                        s.my_retriable_failures),
                   !.trace = Append(@, FatalOutcome(f, this_time))]

\* RetryableResult::Fatal(f)
OnFatal(s, f, this_time) ==
    [s EXCEPT !.pc = "FatalHit",
              !.ctx = LogFatal(FlushHistory(@, s.recoverable_logger,
                                            s.my_retriable_failures),
                               s.fatal_logger, f, this_time),
              !.result = Err(f),
              !.trace = Append(@, FatalOutcome(f, this_time))]

\* async_std::task::sleep(how_long_to_wait).await completes: next iteration
OnSleepDone(s) == [s EXCEPT !.pc = "Attempting"]

(***************************************************************************)
(* Guards.                                                                 *)
(***************************************************************************)
\* do_this_function(arg.clone()).await is pending and may complete
AwaitingOutcome(c) ==
    /\ call[c].pc = "Attempting"
    /\ Len(call[c].trace) < MaxAttempts

\* variant: the sleep returns at once, whatever the duration asked for
SleepReturnsAtOnce(c) ==
    call[c].pc = "Waiting"

\* the sleep lasts at least the duration asked for
SleepElapsed(c) ==
    /\ call[c].pc = "Waiting"
    /\ clock >= call[c].wake

(***************************************************************************)
(* Actions of one activation.                                              *)
(***************************************************************************)
Invoke(c) ==
    /\ call[c].pc = "Idle"
    /\ \E fl \in BOOLEAN, rl \in BOOLEAN :
          call' = [call EXCEPT ![c] = OnInvoke(@, fl, rl)]
    /\ UNCHANGED clock

GoodResult(c) ==
    /\ AwaitingOutcome(c)
    /\ \E z \in Values :
          call' = [call EXCEPT ![c] = OnGoodResult(@, z, clock)]
    /\ UNCHANGED clock

RetryableWait(c) ==
    /\ AwaitingOutcome(c)
    /\ \E r \in RecoverableErrs, d \in Durations :
          call' = [call EXCEPT ![c] = OnRetryableWait(@, r, clock, d)]
    /\ UNCHANGED clock

RetryableGiveUp(c) ==
    /\ AwaitingOutcome(c)
    /\ \E r \in RecoverableErrs :
          call' = [call EXCEPT ![c] = OnRetryableGiveUp(@, r, clock)]
    /\ UNCHANGED clock

Fatal(c) ==
    /\ AwaitingOutcome(c)
    /\ \E f \in Codes :
          call' = [call EXCEPT ![c] = OnFatal(@, f, clock)]
    /\ UNCHANGED clock

SleepDone(c) ==
    /\ SleepElapsed(c)
    /\ call' = [call EXCEPT ![c] = OnSleepDone(@)]
    /\ UNCHANGED clock

\* Instant::now() is monotonic: time only moves forward
Tick ==
    /\ clock < MaxTicks * TickMs
    /\ clock' = clock + TickMs
    /\ UNCHANGED call

(***************************************************************************)
(* Spec: the caller makes one call of repeatedly_try (activation 1).       *)
(***************************************************************************)
Init ==
    /\ call = [c \in Calls |-> IdleCall]
    /\ clock = 0

Next ==
    \/ Invoke(1)
    \/ GoodResult(1)
    \/ RetryableWait(1)
    \/ RetryableGiveUp(1)
    \/ Fatal(1)
    \/ SleepDone(1)
    \/ Tick

Spec == Init /\ [][Next]_vars

(***************************************************************************)
(* SpecFair: Spec with the scheduling the runtime provides: time goes on,  *)
(* and the executor resumes an activation whose sleep has elapsed.         *)
(***************************************************************************)
SpecFair == Spec /\ WF_vars(Tick) /\ WF_vars(SleepDone(1))

(***************************************************************************)
(* SpecTwin: the caller makes two calls that differ at most in the loggers *)
(* they are given, and the environment answers both alike: the operation   *)
(* returns the same outcome to both at the same time, wait_time answers    *)
(* both alike.  Each step feeds one input to every activation that is at   *)
(* the matching await.                                                     *)
(***************************************************************************)
TwinInvoke ==
    /\ \A c \in Calls : call[c].pc = "Idle"
    /\ \E fl \in [Calls -> BOOLEAN], rl \in [Calls -> BOOLEAN] :
          call' = [c \in Calls |-> OnInvoke(call[c], fl[c], rl[c])]
    /\ UNCHANGED clock

TwinGoodResult ==
    /\ \E c \in Calls : AwaitingOutcome(c)
    /\ \E z \in Values :
          call' = [c \in Calls |->
                      IF AwaitingOutcome(c)
                      THEN OnGoodResult(call[c], z, clock) ELSE call[c]]
    /\ UNCHANGED clock

TwinRetryableWait ==
    /\ \E c \in Calls : AwaitingOutcome(c)
    /\ \E r \in RecoverableErrs, d \in Durations :
          call' = [c \in Calls |->
                      IF AwaitingOutcome(c)
                      THEN OnRetryableWait(call[c], r, clock, d) ELSE call[c]]
    /\ UNCHANGED clock

TwinRetryableGiveUp ==
    /\ \E c \in Calls : AwaitingOutcome(c)
    /\ \E r \in RecoverableErrs :
          call' = [c \in Calls |->
                      IF AwaitingOutcome(c)
                      THEN OnRetryableGiveUp(call[c], r, clock) ELSE call[c]]
    /\ UNCHANGED clock

TwinFatal ==
    /\ \E c \in Calls : AwaitingOutcome(c)
    /\ \E f \in Codes :
          call' = [c \in Calls |->
                      IF AwaitingOutcome(c)
                      THEN OnFatal(call[c], f, clock) ELSE call[c]]
    /\ UNCHANGED clock

TwinSleepDone ==
    /\ \E c \in Calls : SleepElapsed(c)
    /\ call' = [c \in Calls |->
                   IF SleepElapsed(c) THEN OnSleepDone(call[c]) ELSE call[c]]
    /\ UNCHANGED clock

NextTwin ==
    \/ TwinInvoke
    \/ TwinGoodResult
    \/ TwinRetryableWait
    \/ TwinRetryableGiveUp
    \/ TwinFatal
    \/ TwinSleepDone
    \/ Tick

SpecTwin == Init /\ [][NextTwin]_vars

(***************************************************************************)
(* SpecCancel: the caller may drop the future of its call while it is      *)
(* suspended at one of its two awaits.  Dropping the future drops its      *)
(* locals, the vector of failures among them, and runs no code of the      *)
(* function: the borrowed logging context is handed back as it is.         *)
(***************************************************************************)
OnDrop(s) ==
    [s EXCEPT !.pc = "Dropped",
              !.my_retriable_failures = <<>>]

Drop(c) ==
    /\ call[c].pc \in {"Attempting", "Waiting"}
    /\ call' = [call EXCEPT ![c] = OnDrop(@)]
    /\ UNCHANGED clock

NextCancel ==
    \/ Next
    \/ Drop(1)

SpecCancel == Init /\ [][NextCancel]_vars

(***************************************************************************)
(* SpecConc: two calls run concurrently on one executor, interleaved at    *)
(* their awaits.  Each call retries an operation of its own: the one of    *)
(* call c answers with the value, the recoverable error and the fatal      *)
(* error of c, so that a failure tells which call's attempt returned it.   *)
(***************************************************************************)
ValueOf(c) == c
CodeOf(c) == IF c = 1 THEN 200 ELSE 503
RecoverableOf(c) == RetryingStatusCode(CodeOf(c))

ConcAwaitingOutcome(c) ==
    /\ call[c].pc = "Attempting"
    /\ Len(call[c].trace) < ConcAttempts

ConcGoodResult(c) ==
    /\ ConcAwaitingOutcome(c)
    /\ call' = [call EXCEPT ![c] = OnGoodResult(@, ValueOf(c), clock)]
    /\ UNCHANGED clock

\* variant: the vector of failures is one static shared by every activation
ConcRetryableWaitSharedHistory(c) ==
    /\ ConcAwaitingOutcome(c)
    /\ \E d \in Durations :
          call' = [x \in Calls |->
                      IF x = c
                      THEN OnRetryableWait(call[x], RecoverableOf(c), clock, d)
                      ELSE [call[x] EXCEPT !.my_retriable_failures =
                               Append(@, <<RecoverableOf(c), clock>>)]]
    /\ UNCHANGED clock

ConcRetryableWait(c) ==
    /\ ConcAwaitingOutcome(c)
    /\ \E d \in Durations :
          call' = [call EXCEPT ![c] = OnRetryableWait(@, RecoverableOf(c), clock, d)]
    /\ UNCHANGED clock

ConcRetryableGiveUp(c) ==
    /\ ConcAwaitingOutcome(c)
    /\ call' = [call EXCEPT ![c] = OnRetryableGiveUp(@, RecoverableOf(c), clock)]
    /\ UNCHANGED clock

ConcFatal(c) ==
    /\ ConcAwaitingOutcome(c)
    /\ call' = [call EXCEPT ![c] = OnFatal(@, CodeOf(c), clock)]
    /\ UNCHANGED clock

NextConc ==
    \/ \E c \in Calls :
          \/ Invoke(c)
          \/ ConcGoodResult(c)
          \/ ConcRetryableWait(c)
          \/ ConcRetryableGiveUp(c)
          \/ ConcFatal(c)
          \/ SleepDone(c)
    \/ Tick

SpecConc == Init /\ [][NextConc]_vars

(***************************************************************************)
(* The reference policy: Retryable for RetryingStatusCode.  Instants and   *)
(* Durations are in milliseconds.                                          *)
(***************************************************************************)
\* std::time::Duration::from_millis(1000)
default_duration == 1000
\* std::time::Duration::from_millis(30000)
give_up_gap == 30000

\* Instant::checked_duration_since: None when `earlier` is later than self
checked_duration_since(self, earlier) ==
    IF self >= earlier THEN Some(self - earlier) ELSE None

\* variant: the policy gives up as soon as the gap reaches the ceiling
wait_time_gives_up_at_ceiling(self, my_time, previous_retriable_failures) ==
    IF previous_retriable_failures # <<>>
    THEN LET last_time == previous_retriable_failures[Len(previous_retriable_failures)][2]
             last_two_gap == checked_duration_since(my_time, last_time) IN
         IF IsSome(last_two_gap)
         THEN IF Unwrap(last_two_gap) >= give_up_gap
              THEN None
              ELSE Some(Unwrap(last_two_gap) * 2)
         ELSE Some(default_duration)
    ELSE Some(default_duration)

\* variant: the policy waits as long as the last gap, without doubling it
wait_time_without_doubling(self, my_time, previous_retriable_failures) ==
    IF previous_retriable_failures # <<>>
    THEN LET last_time == previous_retriable_failures[Len(previous_retriable_failures)][2]
             last_two_gap == checked_duration_since(my_time, last_time) IN
         IF IsSome(last_two_gap)
         THEN IF Unwrap(last_two_gap) > give_up_gap
              THEN None
              ELSE Some(Unwrap(last_two_gap))
         ELSE Some(default_duration)
    ELSE Some(default_duration)

\* variant: the ceiling is compared with the wait, not with the gap
wait_time_ceiling_on_wait(self, my_time, previous_retriable_failures) ==
    IF previous_retriable_failures # <<>>
    THEN LET last_time == previous_retriable_failures[Len(previous_retriable_failures)][2]
             last_two_gap == checked_duration_since(my_time, last_time) IN
         IF IsSome(last_two_gap)
         THEN IF Unwrap(last_two_gap) > 4 * give_up_gap
              THEN None
              ELSE Some(Unwrap(last_two_gap) * 2)
         ELSE Some(default_duration)
    ELSE Some(default_duration)

\* RetryingStatusCode::wait_time
wait_time(self, my_time, previous_retriable_failures) ==
    IF previous_retriable_failures # <<>>
    THEN LET last_time == previous_retriable_failures[Len(previous_retriable_failures)][2]
             last_two_gap == checked_duration_since(my_time, last_time) IN
         IF IsSome(last_two_gap)
         THEN IF Unwrap(last_two_gap) > give_up_gap
              THEN None
              ELSE Some(Unwrap(last_two_gap) * 2)
         ELSE Some(default_duration)
    ELSE Some(default_duration)

(***************************************************************************)
(* One call under the reference policy.  Time passes while the run is      *)
(* suspended: the operation takes some time to return, and the sleep       *)
(* lasts the duration asked for or longer.                                 *)
(***************************************************************************)
\* how long one call of the operation may take, in ms
RefElapsed == {0, 31000}
\* how much longer than asked a sleep may last, in ms
RefOvershoot == {0, 500}

RefAwaitingOutcome(c) ==
    /\ call[c].pc = "Attempting"
    /\ Len(call[c].trace) < RefMaxAttempts

RefGoodResult(c) ==
    /\ RefAwaitingOutcome(c)
    /\ \E z \in Values, e \in RefElapsed :
          /\ clock' = clock + e
          /\ call' = [call EXCEPT ![c] = OnGoodResult(@, z, clock + e)]

RefRetryableWait(c) ==
    /\ RefAwaitingOutcome(c)
    /\ \E r \in RecoverableErrs, e \in RefElapsed :
          LET this_time == clock + e
              how_long == wait_time(r, this_time, call[c].my_retriable_failures) IN
          /\ IsSome(how_long)
          /\ clock' = this_time
          /\ call' = [call EXCEPT ![c] =
                         OnRetryableWait(@, r, this_time, Unwrap(how_long))]

RefRetryableGiveUp(c) ==
    /\ RefAwaitingOutcome(c)
    /\ \E r \in RecoverableErrs, e \in RefElapsed :
          LET this_time == clock + e
              how_long == wait_time(r, this_time, call[c].my_retriable_failures) IN
          /\ ~IsSome(how_long)
          /\ clock' = this_time
          /\ call' = [call EXCEPT ![c] = OnRetryableGiveUp(@, r, this_time)]

RefFatal(c) ==
    /\ RefAwaitingOutcome(c)
    /\ \E f \in Codes, e \in RefElapsed :
          /\ clock' = clock + e
          /\ call' = [call EXCEPT ![c] = OnFatal(@, f, clock + e)]

RefSleepDone(c) ==
    /\ call[c].pc = "Waiting"
    /\ \E o \in RefOvershoot :
          /\ clock' = (IF clock >= call[c].wake THEN clock ELSE call[c].wake) + o
          /\ call' = [call EXCEPT ![c] = OnSleepDone(@)]

NextRef ==
    \/ Invoke(1)
    \/ RefGoodResult(1)
    \/ RefRetryableWait(1)
    \/ RefRetryableGiveUp(1)
    \/ RefFatal(1)
    \/ RefSleepDone(1)

SpecRef == Init /\ [][NextRef]_vars

(***************************************************************************)
(* SpecAlwaysFailing: the operation returns Recoverable on every attempt;  *)
(* it does return, and the executor resumes the run when its sleep ends.   *)
(***************************************************************************)
NextAlwaysFailing ==
    \/ Invoke(1)
    \/ RefRetryableWait(1)
    \/ RefRetryableGiveUp(1)
    \/ RefSleepDone(1)

SpecAlwaysFailing ==
    /\ Init
    /\ [][NextAlwaysFailing]_vars
    /\ WF_vars(Invoke(1))
    /\ WF_vars(RefRetryableWait(1) \/ RefRetryableGiveUp(1))
    /\ WF_vars(RefSleepDone(1))

(***************************************************************************)
(* SpecPolicy: wait_time as a function.  The run is at its await with any  *)
(* history of at most two entries and any clock, anomalies included (a     *)
(* recorded time later than the time of the failure).                      *)
(***************************************************************************)
PolicyTimes == {0, 1000, 30000, 30001, 40000}
PolicyEntries == {<<r, t>> : r \in RecoverableErrs, t \in PolicyTimes}
PolicyHistories ==
    {<<>>} \cup {<<x>> : x \in PolicyEntries}
           \cup {<<x, y>> : x \in PolicyEntries, y \in PolicyEntries}

InitPolicy ==
    /\ clock \in PolicyTimes
    /\ \E h \in PolicyHistories :
          call = [c \in Calls |->
                     IF c = 1
                     THEN [OnInvoke(IdleCall, TRUE, TRUE)
                              EXCEPT !.my_retriable_failures = h]
                     ELSE IdleCall]

NextPolicy ==
    \/ RefRetryableWait(1)
    \/ RefRetryableGiveUp(1)

SpecPolicy == InitPolicy /\ [][NextPolicy]_vars

(***************************************************************************)
(* Vocabulary of the properties.                                           *)
(***************************************************************************)
Terminal(s) == s.pc \in {"Succeeded", "GivenUp", "FatalHit"}
ReturnedErr(s) == s.result[1] = "Err"
BothLoggers(s) == s.fatal_logger /\ s.recoverable_logger
IsRecoverableEntry(e) == e.logger = "recoverable"
IsFatalEntry(e) == e.logger = "fatal"
RecoverableLogged(s) == SelectSeq(s.ctx, IsRecoverableEntry)
FatalLogged(s) == SelectSeq(s.ctx, IsFatalEntry)
Last(q) == q[Len(q)]
\* the attempts of a run that were granted a wait
Granted(e) == e.kind = "Retryable" /\ IsSome(e.wait)
\* what the recoverable-logger is to be told of attempt i of the trace
ReportOf(e) == RecoverableLogEntry(Unwrap(e.rec), e.time)
\* the reports of the first k attempts, when a recoverable-logger was given
ReportsOfFirst(s, k) ==
    IF s.recoverable_logger THEN [i \in 1..k |-> ReportOf(s.trace[i])] ELSE <<>>
\* the single fatal report, when a fatal-logger was given
FatalReport(s, f, t) ==
    IF s.fatal_logger THEN <<FatalLogEntry(f, t)>> ELSE <<>>

(***************************************************************************)
(* C1.  In every run that returns Err with both loggers supplied, every    *)
(* recoverable-logger invocation comes before the fatal-logger invocation, *)
(* the fatal-logger is invoked exactly once, both have happened when the   *)
(* function has returned, and no logger call follows the fatal one: the    *)
(* context's last entry is the only fatal one, and once a run has returned *)
(* its context never changes again.                                        *)
(***************************************************************************)
C1_FatalLast(s) ==
    (ReturnedErr(s) /\ BothLoggers(s)) =>
        /\ Len(FatalLogged(s)) = 1
        /\ Len(s.ctx) >= 1
        /\ IsFatalEntry(Last(s.ctx))
        /\ \A i \in 1..(Len(s.ctx) - 1) : IsRecoverableEntry(s.ctx[i])
        /\ Len(RecoverableLogged(s)) = Len(s.my_retriable_failures)
C1_NoLogAfterReturn(c) ==
    Terminal(call[c]) => call'[c].ctx = call[c].ctx
\* C1: on an Err return the one fatal report is the last entry of the
\* context, after every recoverable report, and nothing is logged afterwards.
C1_LoggerOrder ==
    /\ [](\A c \in Calls : C1_FatalLast(call[c]))
    /\ [][\A c \in Calls : C1_NoLogAfterReturn(c)]_vars

C1_Witness ==
    \E c \in Calls :
        /\ ReturnedErr(call[c])
        /\ BothLoggers(call[c])
        /\ Len(RecoverableLogged(call[c])) >= 2
        /\ IsFatalEntry(Last(call[c].ctx))

(***************************************************************************)
(* C2.  As claimed: when wait_time gives up on the first recoverable       *)
(* failure r, the run returns Err(to_fatal(r)) and the recoverable-logger  *)
(* is invoked exactly once, before the fatal-logger's single invocation.   *)
(***************************************************************************)
GaveUpOnFirst(s) ==
    /\ s.pc = "GivenUp"
    /\ Len(s.trace) = 1
\* C2 as claimed: one recoverable-logger invocation, then the fatal one.
C2_Original ==
    \A c \in Calls :
        (GaveUpOnFirst(call[c]) /\ BothLoggers(call[c])) =>
            /\ call[c].result = Err(to_fatal(Unwrap(call[c].trace[1].rec)))
            /\ Len(RecoverableLogged(call[c])) = 1
            /\ Len(FatalLogged(call[c])) = 1
            /\ IsFatalEntry(Last(call[c].ctx))

(***************************************************************************)
(* C2, amended.  When wait_time gives up on the first recoverable failure  *)
(* r, the run returns Err(to_fatal(r)); the history is empty, so the       *)
(* recoverable-logger is not invoked at all, and the fatal-logger, when    *)
(* supplied, is invoked exactly once, with to_fatal(r) and the time at     *)
(* which r was observed.                                                   *)
(***************************************************************************)
C2_GiveUpOnFirst ==
    \A c \in Calls :
        GaveUpOnFirst(call[c]) =>
            LET r == Unwrap(call[c].trace[1].rec)
                now == call[c].trace[1].time IN
            /\ call[c].result = Err(to_fatal(r))
            /\ Len(RecoverableLogged(call[c])) = 0
            /\ call[c].my_retriable_failures = <<>>
            /\ call[c].ctx = FatalReport(call[c], to_fatal(r), now)

C2_Witness ==
    \E c \in Calls :
        /\ GaveUpOnFirst(call[c])
        /\ BothLoggers(call[c])
        /\ Len(call[c].ctx) = 1
        /\ call[c].trace[1].time > 0

(***************************************************************************)
(* C3.  A run that ends with a Success outcome returns Ok of that value    *)
(* and invokes neither logger, however many recoverable failures were      *)
(* recorded before; when the Success comes on attempt 1 there was no       *)
(* suspension either.                                                      *)
(***************************************************************************)
C3_SuccessIsSilent ==
    \A c \in Calls :
        LET s == call[c] IN
        (Len(s.trace) > 0 /\ Last(s.trace).kind = "GoodResult") =>
            /\ s.pc = "Succeeded"
            /\ s.result = Ok(Unwrap(Last(s.trace).good))
            /\ s.ctx = <<>>
            /\ (Len(s.trace) = 1 => s.sleeps = 0)

C3_Witness ==
    \E c \in Calls :
        /\ call[c].pc = "Succeeded"
        /\ BothLoggers(call[c])
        /\ Len(call[c].my_retriable_failures) >= 2
        /\ call[c].sleeps >= 2

(***************************************************************************)
(* C4.  When k >= 0 recoverable failures were each granted a wait and the  *)
(* next attempt returns Fatal(f): the recoverable-logger, when supplied,   *)
(* is invoked exactly k times, once per recorded (error, timestamp) pair   *)
(* in chronological order; then the fatal-logger, when supplied, once with *)
(* f and the time at which the Fatal outcome was classified; the run       *)
(* returns Err(f).                                                         *)
(***************************************************************************)
C4_FatalAfterFailures ==
    \A c \in Calls :
        LET s == call[c] IN
        (Len(s.trace) > 0 /\ Last(s.trace).kind = "Fatal") =>
            LET k == Len(s.trace) - 1
                f == Unwrap(Last(s.trace).fatal)
                now == Last(s.trace).time IN
            /\ s.pc = "FatalHit"
            /\ \A i \in 1..k : Granted(s.trace[i])
            /\ s.ctx = ReportsOfFirst(s, k) \o FatalReport(s, f, now)
            /\ s.result = Err(f)

C4_Witness ==
    \E c \in Calls :
        /\ call[c].pc = "FatalHit"
        /\ BothLoggers(call[c])
        /\ Len(call[c].ctx) = 3
        /\ call[c].ctx[1].time < call[c].ctx[2].time
        /\ call[c].ctx[2].time < call[c].ctx[3].time
        /\ call[c].ctx[1].rec # call[c].ctx[2].rec

(***************************************************************************)
(* C5.  When wait_time gives up for a recoverable failure r observed at    *)
(* time now, with k entries already in the history: the recoverable-       *)
(* logger, when supplied, is invoked for each of the k entries with its    *)
(* error and timestamp, in chronological order; r is not appended to the   *)
(* history; r is converted with to_fatal to F; the fatal-logger, when      *)
(* supplied, is invoked with (F, now); the run returns Err(F).             *)
(***************************************************************************)
C5_GiveUpAfterFailures ==
    \A c \in Calls :
        LET s == call[c] IN
        (Len(s.trace) > 0 /\ Last(s.trace).kind = "Retryable"
                          /\ ~IsSome(Last(s.trace).wait)) =>
            LET k == Len(s.trace) - 1
                r == Unwrap(Last(s.trace).rec)
                now == Last(s.trace).time IN
            /\ s.pc = "GivenUp"
            /\ \A i \in 1..k : Granted(s.trace[i])
            /\ Len(s.my_retriable_failures) = k
            /\ \A i \in 1..k :
                  s.my_retriable_failures[i]
                      = <<Unwrap(s.trace[i].rec), s.trace[i].time>>
            /\ s.to_fatal_calls = <<r>>
            /\ s.ctx = ReportsOfFirst(s, k) \o FatalReport(s, to_fatal(r), now)
            /\ s.result = Err(to_fatal(r))

C5_Witness ==
    \E c \in Calls :
        /\ call[c].pc = "GivenUp"
        /\ BothLoggers(call[c])
        /\ Len(call[c].ctx) = 3
        /\ call[c].ctx[1].time < call[c].ctx[3].time
        /\ Unwrap(call[c].ctx[3].fatal) # to_fatal(Unwrap(call[c].ctx[1].rec))

(***************************************************************************)
(* C6.  The value repeatedly_try returns is determined by the outcome of   *)
(* the last attempt alone: Ok(v) for Success(v), Err(f) for Fatal(f),      *)
(* Err(to_fatal(r)) for a Recoverable(r) on which the policy gave up, and  *)
(* nothing is returned while the last outcome is a failure that was        *)
(* granted a wait; no recoverable error of an earlier attempt is returned. *)
(***************************************************************************)
ExpectedResult(e) ==
    CASE e.kind = "GoodResult" -> Ok(Unwrap(e.good))
      [] e.kind = "Fatal" -> Err(Unwrap(e.fatal))
      [] e.kind = "Retryable" /\ ~IsSome(e.wait) -> Err(to_fatal(Unwrap(e.rec)))
      [] OTHER -> NoResult
C7_ErrOnlyByOutcome(s) ==
    ReturnedErr(s) =>
        /\ s.trace # <<>>
        /\ \/ Last(s.trace).kind = "Fatal"
           \/ Last(s.trace).kind = "Retryable" /\ ~IsSome(Last(s.trace).wait)
C7_GrantedGoesOn(s) ==
    (s.trace # <<>> /\ Granted(Last(s.trace))) =>
        /\ s.pc \in {"Waiting", "Attempting"}
        /\ s.sleeps = Len(s.trace)
C7_WaitingThenAttempting(c) ==
    call[c].pc = "Waiting" =>
        /\ call'[c].pc \in {"Waiting", "Attempting"}
        /\ call'[c].trace = call[c].trace
C7_SleepCanElapse(c) ==
    /\ call[c].pc = "Waiting"
    /\ call[c].wake <= MaxTicks * TickMs
\* C7: Err only by a Fatal outcome or a give-up; a granted wait is followed
\* by the next attempt.
C7_NeverAbandons ==
    /\ [](\A c \in Calls : C7_ErrOnlyByOutcome(call[c]) /\ C7_GrantedGoesOn(call[c]))
    /\ [][\A c \in Calls : C7_WaitingThenAttempting(c)]_vars
    /\ \A c \in Calls : C7_SleepCanElapse(c) ~> (call[c].pc = "Attempting")

C7_Witness ==
    \E c \in Calls :
        /\ call[c].pc = "Attempting"
        /\ Len(call[c].trace) = MaxAttempts
        /\ \A i \in 1..MaxAttempts : Granted(call[c].trace[i])

(***************************************************************************)
(* C8.  Supplying or omitting either logger changes nothing about the      *)
(* returned Result: two runs given the same operation outcomes and policy  *)
(* decisions, whatever loggers each has, are at the same point, have made  *)
(* the same number of attempts and suspensions and hold the same result.   *)
(***************************************************************************)
C8_LoggersDoNotSteer ==
    \A a \in Calls, b \in Calls :
        /\ call[a].pc = call[b].pc
        /\ call[a].trace = call[b].trace
        /\ call[a].sleeps = call[b].sleeps
        /\ call[a].result = call[b].result

C8_Witness ==
    \E a \in Calls, b \in Calls :
        /\ BothLoggers(call[a])
        /\ ~call[b].fatal_logger /\ ~call[b].recoverable_logger
        /\ ReturnedErr(call[a])
        /\ ReturnedErr(call[b])
        /\ Len(call[a].ctx) = 3
        /\ call[b].ctx = <<>>

(***************************************************************************)
(* C9.  to_fatal is applied at most once in a run, and only to the         *)
(* recoverable error of the attempt on which the policy gave up: never to  *)
(* an error that was granted a wait, never in a run that ends with Success *)
(* or with a Fatal outcome.                                                *)
(***************************************************************************)
C9_ToFatalOnce ==
    \A c \in Calls :
        LET s == call[c] IN
        /\ s.pc = "GivenUp" => s.to_fatal_calls = <<Unwrap(Last(s.trace).rec)>>
        /\ s.pc # "GivenUp" => s.to_fatal_calls = <<>>

C9_Witness ==
    \E c \in Calls :
        LET s == call[c] IN
        /\ s.pc = "GivenUp"
        /\ Len(s.my_retriable_failures) >= 2
        /\ Len(s.to_fatal_calls) = 1
        /\ \A i \in 1..Len(s.my_retriable_failures) :
              s.my_retriable_failures[i][1] # s.to_fatal_calls[1]

(***************************************************************************)
(* C10.  wait_time is called once per recoverable failure; at its n-th     *)
(* call it is given the n-th failure, the time it was observed, and a      *)
(* history that holds exactly the n-1 earlier failures with their          *)
(* timestamps in order of occurrence, the current failure not among them;  *)
(* at the first call the history is empty.                                 *)
(***************************************************************************)
IsRetryableOutcome(e) == e.kind = "Retryable"
EarlierFailures(s, n) ==
    [i \in 1..(n - 1) |-> <<Unwrap(s.trace[i].rec), s.trace[i].time>>]
\* C10: the n-th wait_time call is given exactly the n-1 earlier failures.
C10_HistoryBeforeFailure ==
    \A c \in Calls :
        LET s == call[c] IN
        /\ Len(s.wait_time_calls) = Len(SelectSeq(s.trace, IsRetryableOutcome))
        /\ \A n \in 1..Len(s.wait_time_calls) :
              /\ s.wait_time_calls[n].self = Unwrap(s.trace[n].rec)
              /\ s.wait_time_calls[n].my_time = s.trace[n].time
              /\ Len(s.wait_time_calls[n].previous) = n - 1
              /\ s.wait_time_calls[n].previous = EarlierFailures(s, n)

C10_Witness ==
    \E c \in Calls :
        LET s == call[c] IN
        /\ Len(s.wait_time_calls) = 3
        /\ Len(s.wait_time_calls[3].previous) = 2
        /\ s.wait_time_calls[3].previous[1][2] < s.wait_time_calls[3].previous[2][2]
        /\ s.wait_time_calls[3].previous[2][2] < s.wait_time_calls[3].my_time
        /\ s.wait_time_calls[3].previous[1][1] # s.wait_time_calls[3].previous[2][1]

(***************************************************************************)
(* C11.  Attempts are strictly sequential and follow the state machine:    *)
(* the only moves are Attempting -> Waiting (the failure was classified    *)
(* Recoverable, the policy answered a duration, the failure was appended   *)
(* and one suspension begun), Waiting -> Attempting (the suspension has    *)
(* lasted the duration asked for) and Attempting -> Succeeded, GivenUp or  *)
(* FatalHit; an outcome is delivered only to an attempting run, one at a   *)
(* time; after a terminal state nothing of the run changes: no attempt,    *)
(* no suspension, no logger call.                                          *)
(***************************************************************************)
C11_Moves ==
    {<<"Idle", "Attempting">>, <<"Attempting", "Waiting">>,
     <<"Waiting", "Attempting">>, <<"Attempting", "Succeeded">>,
     <<"Attempting", "GivenUp">>, <<"Attempting", "FatalHit">>}
C11_Step(c) ==
    LET s == call[c]
        t == call'[c] IN
    /\ s.pc # t.pc => <<s.pc, t.pc>> \in C11_Moves
    /\ t.trace # s.trace =>
          /\ s.pc = "Attempting" /\ t.pc # "Attempting"
          /\ Len(t.trace) = Len(s.trace) + 1
    /\ (s.pc = "Attempting" /\ t.pc = "Waiting") =>
          /\ Granted(Last(t.trace))
          /\ t.my_retriable_failures =
                Append(s.my_retriable_failures,
                       <<Unwrap(Last(t.trace).rec), Last(t.trace).time>>)
          /\ t.sleeps = s.sleeps + 1
          /\ t.wake = Last(t.trace).time + Unwrap(Last(t.trace).wait)
    /\ (s.pc = "Waiting" /\ t.pc = "Attempting") =>
          /\ clock >= s.wake
          /\ t.trace = s.trace
          /\ t.my_retriable_failures = s.my_retriable_failures
    /\ Terminal(s) => t = s
C11_AttemptAfterWaits(s) ==
    (s.pc = "Attempting" /\ s.trace # <<>>) =>
        /\ \A i \in 1..Len(s.trace) : Granted(s.trace[i])
        /\ s.sleeps = Len(s.trace)
        /\ clock >= s.wake
\* C11: the moves of a run are those of the state machine, in sequence.
C11_Sequential ==
    /\ [](\A c \in Calls : C11_AttemptAfterWaits(call[c]))
    /\ [][\A c \in Calls : C11_Step(c)]_vars

C11_Witness ==
    \E c \in Calls :
        /\ call[c].pc = "Attempting"
        /\ Len(call[c].trace) = 2
        /\ call[c].wake > call[c].trace[2].time
        /\ call[c].trace[2].time > call[c].trace[1].time

(***************************************************************************)
(* C12.  A run that is cancelled while suspended, in the operation call    *)
(* or in the backoff wait, has invoked no logger and invokes none          *)
(* afterwards: while a run is Attempting or Waiting, and once it is        *)
(* dropped, its logging context is empty, whatever the length of its       *)
(* history, and a dropped run does nothing more.                           *)
(***************************************************************************)
C12_NoLogBeforeEnd(s) ==
    s.pc \in {"Idle", "Attempting", "Waiting", "Dropped"} => s.ctx = <<>>
C12_DroppedIsOver(c) ==
    call[c].pc = "Dropped" => call'[c] = call[c]
\* C12: nothing is logged before a terminal outcome, nor after a drop.
C12_CancelIsSilent ==
    /\ [](\A c \in Calls : C12_NoLogBeforeEnd(call[c]))
    /\ [][\A c \in Calls : C12_DroppedIsOver(c)]_vars

C12_Witness ==
    \E c \in Calls :
        /\ call[c].pc = "Dropped"
        /\ BothLoggers(call[c])
        /\ Len(call[c].trace) = 2
        /\ call[c].sleeps = 2
        /\ call[c].wake > clock

(***************************************************************************)
(* C13.  Two calls running concurrently share no failure history: the      *)
(* history of each call, the history given to its wait_time calls and the  *)
(* entries flushed to its recoverable-logger hold only the recoverable     *)
(* failures its own attempts returned, in their order, and what a call     *)
(* logs and returns is what its own outcomes and timestamps determine, as  *)
(* when it runs alone.                                                     *)
(***************************************************************************)
OwnFailures(s) ==
    LET granted == SelectSeq(s.trace, Granted) IN
    [i \in 1..Len(granted) |-> <<Unwrap(granted[i].rec), granted[i].time>>]
C13_OwnHistory(c) ==
    LET s == call[c] IN
    /\ s.my_retriable_failures = OwnFailures(s)
    /\ \A i \in 1..Len(s.my_retriable_failures) :
          s.my_retriable_failures[i][1] = RecoverableOf(c)
    /\ \A n \in 1..Len(s.wait_time_calls) :
          /\ s.wait_time_calls[n].previous = EarlierFailures(s, n)
          /\ \A i \in 1..Len(s.wait_time_calls[n].previous) :
                s.wait_time_calls[n].previous[i][1] = RecoverableOf(c)
    /\ \A i \in 1..Len(s.ctx) :
          IsRecoverableEntry(s.ctx[i]) =>
              /\ Unwrap(s.ctx[i].rec) = RecoverableOf(c)
              /\ i <= Len(s.trace) /\ s.ctx[i] = ReportOf(s.trace[i])
C13_AsWhenAlone(c) ==
    LET s == call[c] IN
    /\ s.trace # <<>> => s.result = ExpectedResult(Last(s.trace))
    /\ ReturnedErr(s) =>
          s.ctx = ReportsOfFirst(s, Len(s.trace) - 1)
                    \o FatalReport(s, s.result[2], Last(s.trace).time)
    /\ ~ReturnedErr(s) => s.ctx = <<>>
\* C13: each concurrent call keeps, passes on and reports its own failures only.
C13_PrivateHistory ==
    \A c \in Calls : C13_OwnHistory(c) /\ C13_AsWhenAlone(c)

C13_Witness ==
    \E a \in Calls, b \in Calls :
        /\ a # b
        /\ ReturnedErr(call[a]) /\ ReturnedErr(call[b])
        /\ BothLoggers(call[a]) /\ BothLoggers(call[b])
        /\ Len(call[a].ctx) = 2 /\ Len(call[b].ctx) = 2
        /\ call[a].ctx[1].time < call[b].ctx[1].time
        /\ call[b].ctx[1].time < call[a].ctx[2].time
        /\ call[a].ctx[2].time < call[b].ctx[2].time

(***************************************************************************)
(* C14.  The loop is deterministic: the history a run builds, the calls    *)
(* it makes on wait_time, the logger invocations it makes and the result   *)
(* it returns are functions of the operation outcomes, the policy answers  *)
(* and the clock readings it was given (and of which loggers it has); so   *)
(* two runs given the same of these hold the same history, the same log    *)
(* and the same result.                                                    *)
(***************************************************************************)
ExpectedWaitTimeCalls(s) ==
    LET failed == SelectSeq(s.trace, IsRetryableOutcome) IN
    [n \in 1..Len(failed) |->
        [self |-> Unwrap(failed[n].rec), my_time |-> failed[n].time,
         previous |-> EarlierFailures(s, n)]]
ExpectedContext(s) ==
    IF s.trace # <<>> /\ ExpectedResult(Last(s.trace))[1] = "Err"
    THEN ReportsOfFirst(s, Len(s.trace) - 1)
            \o FatalReport(s, ExpectedResult(Last(s.trace))[2], Last(s.trace).time)
    ELSE <<>>
C14_FunctionOfInputs(s) ==
    /\ s.my_retriable_failures = OwnFailures(s)
    /\ s.wait_time_calls = ExpectedWaitTimeCalls(s)
    /\ s.ctx = ExpectedContext(s)
    /\ s.result = IF s.trace = <<>> THEN NoResult ELSE ExpectedResult(Last(s.trace))
SameLoggers(s, t) ==
    /\ s.fatal_logger = t.fatal_logger
    /\ s.recoverable_logger = t.recoverable_logger
\* C14: runs with the same inputs hold the same history, log and result.
C14_Deterministic ==
    /\ \A c \in Calls : C14_FunctionOfInputs(call[c])
    /\ \A a \in Calls, b \in Calls :
          (call[a].trace = call[b].trace /\ SameLoggers(call[a], call[b])) =>
              /\ call[a].my_retriable_failures = call[b].my_retriable_failures
              /\ call[a].ctx = call[b].ctx
              /\ call[a].result = call[b].result

C14_Witness ==
    \E a \in Calls, b \in Calls :
        /\ a # b
        /\ call[a].pc = "GivenUp" /\ call[b].pc = "GivenUp"
        /\ BothLoggers(call[a]) /\ BothLoggers(call[b])
        /\ call[a].trace = call[b].trace
        /\ Len(call[a].ctx) = 3
        /\ call[a].ctx = call[b].ctx
        /\ call[a].ctx[1].time < call[a].ctx[2].time

(***************************************************************************)
(* C15.  RetryingStatusCode::wait_time is this function of my_time and     *)
(* the history: empty history -> wait 1000 ms; last recorded time later    *)
(* than my_time -> wait 1000 ms; otherwise, with g = my_time - last        *)
(* recorded time, g <= 30000 ms -> wait 2g, g > 30000 ms -> give up.  It   *)
(* reads my_time and the timestamp of the last entry only.                 *)
(***************************************************************************)
ClaimedWait(my_time, last_times) ==
    CASE last_times = <<>> -> Some(1000)
      [] last_times # <<>> /\ Last(last_times) > my_time -> Some(1000)
      [] last_times # <<>> /\ Last(last_times) <= my_time
                           /\ my_time - Last(last_times) <= 30000 ->
            Some(2 * (my_time - Last(last_times)))
      [] OTHER -> None
TimesOf(failures) == [i \in 1..Len(failures) |-> failures[i][2]]
\* C15: every answer of wait_time is the documented function of its inputs.
C15_ReferencePolicy ==
    \A c \in Calls :
        \A n \in 1..Len(call[c].wait_time_calls) :
            call[c].trace[n].wait =
                ClaimedWait(call[c].wait_time_calls[n].my_time,
                            TimesOf(call[c].wait_time_calls[n].previous))

C15_Witness ==
    \E c \in Calls :
        /\ Len(call[c].wait_time_calls) = 1
        /\ Len(call[c].wait_time_calls[1].previous) = 2
        /\ call[c].wait_time_calls[1].previous[1][1]
              # call[c].wait_time_calls[1].previous[2][1]
        /\ call[c].wait_time_calls[1].my_time
              = call[c].wait_time_calls[1].previous[2][2] + 30000
        /\ call[c].trace[1].wait = Some(60000)

(***************************************************************************)
(* C16.  Bounded backoff with a hard cutoff: under the reference policy,   *)
(* with a monotonic clock and sleeps that last at least the duration       *)
(* asked for, a run whose operation returns Recoverable on every attempt   *)
(* eventually reaches GivenUp and then holds Err(to_fatal(r)) of its last  *)
(* failure r, its loggers invoked in the documented order (the recorded    *)
(* failures, then the fatal error); it never retries forever, and no       *)
(* suspension it asks for is longer than 60000 ms.                         *)
(***************************************************************************)
C16_BoundedWaits(s) ==
    \A i \in 1..Len(s.trace) :
        IsSome(s.trace[i].wait) => Unwrap(s.trace[i].wait) <= 60000
C16_GivenUpAsDocumented(s) ==
    s.pc = "GivenUp" =>
        LET r == Unwrap(Last(s.trace).rec) IN
        /\ s.result = Err(to_fatal(r))
        /\ s.ctx = ReportsOfFirst(s, Len(s.trace) - 1)
                     \o FatalReport(s, to_fatal(r), Last(s.trace).time)
\* C16: an always-failing run under the reference policy ends in GivenUp.
C16_BackoffEnds ==
    /\ [](\A c \in Calls : C16_BoundedWaits(call[c]) /\ C16_GivenUpAsDocumented(call[c]))
    /\ <>(call[1].pc = "GivenUp")

C16_Witness ==
    \E c \in Calls :
        /\ call[c].pc = "GivenUp"
        /\ BothLoggers(call[c])
        /\ Len(call[c].ctx) = 7
        /\ \E i \in 1..Len(call[c].trace) :
              /\ IsSome(call[c].trace[i].wait)
              /\ Unwrap(call[c].trace[i].wait) > 30000

(***************************************************************************)
(* C19.  Attempt bound under the reference policy: with a monotonic clock  *)
(* and sleeps that last at least the duration asked for, a run never gives *)
(* up on its first recoverable failure and makes at most 7 attempts: the   *)
(* gap between consecutive recoverable failures at least doubles each      *)
(* time (>= 1 s, 2 s, 4 s, 8 s, 16 s, 32 s), so the policy gives up no     *)
(* later than the 7th consecutive failure and the history never holds      *)
(* more than 6 entries.                                                    *)
(***************************************************************************)
RECURSIVE PowerOfTwo(_)
PowerOfTwo(n) == IF n = 0 THEN 1 ELSE 2 * PowerOfTwo(n - 1)
C19_GapsDouble(s) ==
    LET failed == SelectSeq(s.trace, IsRetryableOutcome) IN
    \A i \in 1..(Len(failed) - 1) :
        /\ failed[i + 1].time - failed[i].time >= 1000 * PowerOfTwo(i - 1)
        /\ i >= 2 => failed[i + 1].time - failed[i].time
                        >= 2 * (failed[i].time - failed[i - 1].time)
\* C19: at most 7 attempts, at most 6 recorded failures, doubling gaps.
C19_AtMostSevenAttempts ==
    \A c \in Calls :
        LET s == call[c] IN
        /\ Len(s.trace) <= 7
        /\ Len(s.my_retriable_failures) <= 6
        /\ (s.trace # <<>> /\ s.trace[1].kind = "Retryable") =>
              s.trace[1].wait = Some(1000)
        /\ C19_GapsDouble(s)

C19_Witness ==
    \E c \in Calls :
        /\ call[c].pc = "GivenUp"
        /\ Len(call[c].trace) = 7
        /\ Len(call[c].my_retriable_failures) = 6

(***************************************************************************)
(* C17.  The failure history of a run is empty at call start and changes   *)
(* only by one (error, timestamp) entry appended at its end, the entries   *)
(* it holds never removed, reordered or modified; the entry is appended    *)
(* before the suspension for that failure begins, so a waiting run holds   *)
(* the failure it waits for; the timestamps of the entries are             *)
(* non-decreasing in insertion order.                                      *)
(***************************************************************************)
C17_Step(c) ==
    LET s == call[c]
        t == call'[c]
        n == Len(s.my_retriable_failures) IN
    /\ (s.pc = "Idle" /\ t.pc # "Idle") => t.my_retriable_failures = <<>>
    /\ \/ t.my_retriable_failures = s.my_retriable_failures
       \/ /\ Len(t.my_retriable_failures) = n + 1
          /\ SubSeq(t.my_retriable_failures, 1, n) = s.my_retriable_failures
          /\ s.pc = "Attempting" /\ t.pc = "Waiting"
          /\ t.my_retriable_failures[n + 1]
                = <<Unwrap(Last(t.trace).rec), Last(t.trace).time>>
C17_State(s) ==
    /\ s.pc = "Idle" => s.my_retriable_failures = <<>>
    /\ s.pc = "Waiting" =>
          /\ Len(s.my_retriable_failures) = s.sleeps
          /\ Last(s.my_retriable_failures)
                = <<Unwrap(Last(s.trace).rec), Last(s.trace).time>>
    /\ \A i \in 1..Len(s.my_retriable_failures) :
          \A j \in i..Len(s.my_retriable_failures) :
              s.my_retriable_failures[i][2] <= s.my_retriable_failures[j][2]
\* C17: the history only grows, at its end, in time order.
C17_AppendOnly ==
    /\ [](\A c \in Calls : C17_State(call[c]))
    /\ [][\A c \in Calls : C17_Step(c)]_vars

C17_Witness ==
    \E c \in Calls :
        LET h == call[c].my_retriable_failures IN
        /\ Len(h) = 3
        /\ h[1][2] < h[2][2]
        /\ h[2][2] < h[3][2]
        /\ h[1][1] # h[3][1]

(***************************************************************************)
(* C18.  Counting: in every state the number of suspensions begun equals   *)
(* the length of the history; at every terminal state the number of        *)
(* operation outcomes is the length of the history plus one; hence on an   *)
(* Err return with a recoverable-logger, that logger was invoked exactly   *)
(* (attempts - 1) times, and the failure on which the policy gave up is    *)
(* reported through the fatal-logger only.                                 *)
(***************************************************************************)
C18_Counting ==
    \A c \in Calls :
        LET s == call[c] IN
        /\ s.sleeps = Len(s.my_retriable_failures)
        /\ Terminal(s) => Len(s.trace) = Len(s.my_retriable_failures) + 1
        /\ (ReturnedErr(s) /\ s.recoverable_logger) =>
              /\ Len(RecoverableLogged(s)) = Len(s.trace) - 1
              /\ RecoverableLogged(s) = ReportsOfFirst(s, Len(s.trace) - 1)
        /\ (s.pc = "GivenUp" /\ s.fatal_logger) =>
              /\ Last(s.ctx) = FatalLogEntry(to_fatal(Unwrap(Last(s.trace).rec)),
                                             Last(s.trace).time)
              /\ Len(FatalLogged(s)) = 1

C18_Witness ==
    \E c \in Calls :
        /\ call[c].pc = "GivenUp"
        /\ BothLoggers(call[c])
        /\ Len(call[c].trace) = 3
        /\ call[c].sleeps = 2
        /\ Len(RecoverableLogged(call[c])) = 2

====
